---- MODULE Spec2Model ----
\* The 8x8 Mines server (server.py).  Spec is one match: the GameSession
\* thread, the two client connections it owns, and the clients acting on
\* them.  SpecMM is the way into a match: the handle_client threads and the
\* MatchMaker they share.
EXTENDS Integers, Sequences, FiniteSets, TLC

VARIABLES mode, mines, mines_hit, selected, scores, turn, running,
          pc, elapsed, sent, closed, inbox, conn, rounds, nmsgs, nfaults,
          script

\* MatchMaker.lock and MatchMaker.queues, the sessions created, and for each
\* accepted connection its handle_client thread: position, first message
\* read, and the locals a and b of join; arrivals is the order of the appends
VARIABLES lock, queues, sessions, hpc, joinmsg, pop_a, pop_b, arrivals
\* the connections whose first line took longer than the grace period to
\* arrive in full
VARIABLE late

svars == <<mode, mines, mines_hit, selected, scores, turn, running,
           pc, elapsed, sent, closed, inbox, conn, rounds, nmsgs, nfaults,
           script>>
mmvars == <<lock, queues, sessions, hpc, joinmsg, pop_a, pop_b, arrivals, late>>
\* mmvars without the waiting lists
mmrest == <<lock, sessions, hpc, joinmsg, pop_a, pop_b, arrivals, late>>
vars == <<svars, mmvars>>

-----------------------------------------------------------------------------
\* Bounds of the model.

\* unread messages a connection can hold
MaxInbox == 1
\* messages the two clients send in one match
MaxMsgs == 2
\* turn broadcasts in one match
MaxRounds == 3
\* seconds the clock advances in one step
TickLen == 10
\* connections that close or break in one match
MaxFaults == 1
\* turn broadcasts in a match whose clients fill the board
FillRounds == 64
\* connections the server accepts
NConns == 3

\* Program constants.

\* the board is GridSize x GridSize
GridSize == 8
\* seconds of one move window
Window == 10
\* number of claimed cells at which the board counts as full
BoardFull == 64

Players == {0, 1}
Modes == {"survival", "scoring"}

\* The mine sets the model starts from, one for each mine count of
\* __init__, and the coordinates its clients put in a select: three cells of
\* the grid and one coordinate outside it.
MineSets == {{<<0, 0>>, <<0, 1>>},
             {<<0, 0>>, <<0, 1>>, <<0, 2>>},
             {<<0, 0>>, <<0, 1>>, <<0, 2>>, <<0, 3>>}}
SelCells == {<<0, 0>>, <<0, 1>>, <<0, 2>>, <<8, 0>>}

\* The clients of a match either send what they like ("free") or fill the
\* board ("fill"): the player whose turn it is selects, within the window,
\* first (0,0) or (0,2) and then the coordinates of rows 1 to 8 in order,
\* row 8 lying outside the grid.
Scripts == {"free", "fill", "grid"}
FillCell(k) == <<1 + ((k - 1) \div GridSize), (k - 1) % GridSize>>
FillChoices(k) == IF k = 0 THEN {<<0, 0>>, <<0, 2>>} ELSE {FillCell(k)}
\* the cell to select when k cells are claimed, for two clients that claim
\* the cells of the grid ("grid"): rows 1 to 7 left to right, then row 0
\* right to left, so that the mines come last
GridCell(k) ==
    IF k < GridSize * (GridSize - 1)
    THEN <<1 + (k \div GridSize), k % GridSize>>
    ELSE <<0, GridSize * GridSize - 1 - k>>

InGrid(rc) == rc[1] \in 0..(GridSize - 1) /\ rc[2] \in 0..(GridSize - 1)

-----------------------------------------------------------------------------
\* Messages on the wire, client to server.  A field of a JSON object is an
\* integer, a decimal string, or absent.

IntVal(n) == [k |-> "int", v |-> n]
StrVal(n) == [k |-> "str", v |-> n]
NoVal == [k |-> "none", v |-> 0]

Leave == [type |-> "leave", r |-> NoVal, c |-> NoVal]
SelectMsg(rc) == [type |-> "select", r |-> IntVal(rc[1]), c |-> IntVal(rc[2])]
\* select with its coordinates as strings, {"type":"select","r":"0","c":"2"}
SelectStr == [type |-> "select", r |-> StrVal(0), c |-> StrVal(2)]
\* select without coordinates
SelectBare == [type |-> "select", r |-> NoVal, c |-> NoVal]
\* a JSON object of another type
Other == [type |-> "other", r |-> NoVal, c |-> NoVal]
\* a line that is no JSON
Garbage == [type |-> "garbage", r |-> NoVal, c |-> NoVal]
\* a line that is JSON but no object
NonDict == [type |-> "nondict", r |-> NoVal, c |-> NoVal]
\* recv_msg's None
None == [type |-> "None", r |-> NoVal, c |-> NoVal]

Msgs == {Leave, SelectStr, SelectBare, Other, Garbage, NonDict}
          \cup {SelectMsg(rc) : rc \in SelCells}

\* json.loads inside recv_msg: None for a line that does not parse.
JsonLoads(m) == IF m.type = "garbage" THEN None ELSE m

\* int(x): defined on integers and decimal strings, raises on None.
IntRaises(w) == w.k = "none"
PyInt(w) == w.v

-----------------------------------------------------------------------------
\* The session's own state as one record, so that the steps of run() compose.

Sess == [mines_hit |-> mines_hit, selected |-> selected, scores |-> scores,
         turn |-> turn, running |-> running, pc |-> pc, elapsed |-> elapsed,
         sent |-> sent, closed |-> closed, inbox |-> inbox,
         queues |-> queues]

Commit(s) ==
    /\ mines_hit' = s.mines_hit
    /\ selected' = s.selected
    /\ scores' = s.scores
    /\ turn' = s.turn
    /\ running' = s.running
    /\ pc' = s.pc
    /\ elapsed' = s.elapsed
    /\ sent' = s.sent
    /\ closed' = s.closed
    /\ inbox' = s.inbox
    /\ queues' = s.queues

\* send_msg raises on a connection that was reset.
Fails(p) == conn[p] = "reset"

\* One call of send_msg(socks[p], ev).
Send(s, p, ev) ==
    [s EXCEPT !.sent = Append(@, [to |-> p, ok |-> ~Fails(p), ev |-> ev])]

\* The selection dict: membership, and assignment d[rc] = p.
HasKey(d, rc) == \E i \in 1..Len(d) : d[i].rc = rc
DictSet(d, rc, p) ==
    IF HasKey(d, rc)
    THEN [i \in 1..Len(d) |-> IF d[i].rc = rc THEN [rc |-> rc, p |-> p] ELSE d[i]]
    ELSE Append(d, [rc |-> rc, p |-> p])

\* _board_view
BoardView(s, viewer) == [selected |-> s.selected, scores |-> s.scores]

StartEvent(i) == [type |-> "start", you |-> i, mode |-> mode]
TurnEvent(s, i) ==
    [type |-> "turn", player |-> s.turn, time |-> Window, board |-> BoardView(s, i)]
InfoEvent(cur) == [type |-> "info", player |-> cur]
ErrorEvent == [type |-> "error", msg |-> "cell already chosen"]
MineHitEvent(rc) == [type |-> "mine_hit", r |-> rc[1], c |-> rc[2]]
UpdateEvent(s) == [type |-> "update", selected |-> s.selected, scores |-> s.scores]
\* EndEvent listing every mine of the board, hit or not.
EndEventAllMines(s, winner, reason) ==
    [type |-> "end", winner |-> winner, reason |-> reason,
     scores |-> IF mode = "scoring" THEN s.scores ELSE [p \in Players |-> 0],
     selected |-> s.selected, mines |-> mines]

EndEvent(s, winner, reason) ==
    [type |-> "end", winner |-> winner, reason |-> reason,
     scores |-> IF mode = "scoring" THEN s.scores ELSE [p \in Players |-> 0],
     selected |-> s.selected, mines |-> s.mines_hit]

\* _close_all
CloseAll(s) == [s EXCEPT !.closed = TRUE]

\* return from run(); an exception that leaves run() uncaught
Return(s) == [s EXCEPT !.pc = "done"]
Crash(s) == [s EXCEPT !.pc = "crashed"]

\* SendEnd without the call of _close_all of line 198.
SendEndNoClose(s, winner, reason) ==
    LET ev == EndEvent(s, winner, reason)
        s1 == Send(Send(s, 0, ev), 1, ev)
    IN [s1 EXCEPT !.running = FALSE]

\* _send_end: the end event to both sockets, failures swallowed, then close.
SendEnd(s, winner, reason) ==
    LET ev == EndEvent(s, winner, reason)
        s1 == Send(Send(s, 0, ev), 1, ev)
    IN CloseAll([s1 EXCEPT !.running = FALSE])

\* EndDueToDisconnect naming no winner.
EndDueToDisconnectNoWinner(s, idx) == SendEnd(s, -1, "opponent_quit")

\* _end_due_to_disconnect
EndDueToDisconnect(s, idx) == SendEnd(s, 1 - idx, "opponent_quit")

-----------------------------------------------------------------------------
\* GameSession.run, cut at the points where the thread blocks.

\* select() reports a socket readable when it holds data, is at end of stream,
\* or was reset.
Readable(s, p) == s.inbox[p] # <<>> \/ conn[p] # "up"

\* recv_msg(socks[p], timeout=0.1) on a socket select() reported readable:
\* the next line parsed, None at end of stream; a reset connection raises.
Recv(s, p) ==
    IF conn[p] = "reset"
    THEN [raised |-> TRUE, msg |-> None, s |-> s]
    ELSE IF s.inbox[p] # <<>>
    THEN [raised |-> FALSE, msg |-> JsonLoads(Head(s.inbox[p])),
          s |-> [s EXCEPT !.inbox[p] = Tail(@)]]
    ELSE [raised |-> FALSE, msg |-> None, s |-> s]

\* ByScore with >= for >: a tie goes to player 0.
ByScoreNoTie(sc) == IF sc[0] >= sc[1] THEN 0 ELSE 1

\* the winner by score, -1 for a tie
ByScore(sc) == IF sc[0] > sc[1] THEN 0 ELSE IF sc[1] > sc[0] THEN 1 ELSE -1

\* `sock` at line 124 is the variable the start loop of line 54 left bound to
\* its last element, socks[1].
sock == 1

\* RunStart putting the connection whose start send did not fail back into
\* the waiting list of the session's mode.
RunStartRequeue(s) ==
    LET s0 == Send(s, 0, StartEvent(0))
        s1 == Send(s0, 1, StartEvent(1))
        back(p) == [queues EXCEPT ![mode] = Append(@, NConns + 1 + p)]
    IN IF Fails(0) THEN Return(CloseAll([s0 EXCEPT !.queues = back(1)]))
       ELSE IF Fails(1) THEN Return(CloseAll([s1 EXCEPT !.queues = back(0)]))
       ELSE [s1 EXCEPT !.pc = "turn"]

\* RunStart going on to the first turn when a start send failed.
RunStartNoAbort(s) ==
    LET s0 == Send(s, 0, StartEvent(0))
        s1 == Send(s0, 1, StartEvent(1))
    IN [s1 EXCEPT !.pc = "turn"]

\* lines 54-58: the start handshake
RunStart(s) ==
    LET s0 == Send(s, 0, StartEvent(0))
        s1 == Send(s0, 1, StartEvent(1))
    IN IF Fails(0) THEN Return(CloseAll(s0))
       ELSE IF Fails(1) THEN Return(CloseAll(s1))
       ELSE [s1 EXCEPT !.pc = "turn"]

\* lines 60-77: loop test, turn broadcast, start of the move window
RunTurn(s) ==
    LET s0 == Send(s, 0, TurnEvent(s, 0))
        s1 == Send(s0, 1, TurnEvent(s, 1))
    IN IF ~s.running THEN Return(s)
       ELSE IF Fails(0) THEN Return(EndDueToDisconnect(s0, 0))
       ELSE IF Fails(1) THEN Return(EndDueToDisconnect(s1, 1))
       ELSE [s1 EXCEPT !.pc = "wait", !.elapsed = 0]

\* AfterSelect without the assignment of line 166: the player who moved keeps
\* the turn.
AfterSelectNoFlip(s) ==
    LET s0 == s
        s1 == Send(s0, 0, UpdateEvent(s0))
        s2 == Send(s1, 1, UpdateEvent(s0))
    IN IF Fails(0) THEN Crash(s1)
       ELSE IF Fails(1) THEN Crash(s2)
       ELSE IF Len(s2.selected) >= BoardFull
       THEN Return(SendEnd(s2, ByScore(s2.scores), "board_full"))
       ELSE [s2 EXCEPT !.pc = "turn"]

\* lines 165-180: flip the turn, broadcast update, test for a full board
AfterSelect(s) ==
    LET s0 == [s EXCEPT !.turn = 1 - s.turn]
        s1 == Send(s0, 0, UpdateEvent(s0))
        s2 == Send(s1, 1, UpdateEvent(s0))
    IN IF Fails(0) THEN Crash(s1)
       ELSE IF Fails(1) THEN Crash(s2)
       ELSE IF Len(s2.selected) >= BoardFull
       THEN Return(SendEnd(s2, ByScore(s2.scores), "board_full"))
       ELSE [s2 EXCEPT !.pc = "turn"]

\* HitMine without the return of line 145: the survival end falls through to
\* the turn flip and the update broadcast.
HitMineNoReturn(s, rc) ==
    LET cur == s.turn
        s1 == Send(Send(s, 0, MineHitEvent(rc)), 1, MineHitEvent(rc))
        s2 == [s1 EXCEPT !.mines_hit = @ \cup {rc},
                         !.scores[cur] = IF mode = "scoring" THEN @ - 1 ELSE @]
    IN IF mode = "survival"
       THEN AfterSelect(SendEnd(s2, 1 - cur, "mine"))
       ELSE IF Cardinality(s2.mines_hit) = Cardinality(mines)
       THEN Return(SendEnd(s2, ByScore(s2.scores), "all_mines_hit"))
       ELSE AfterSelect(s2)

\* HitMine naming the player who hit the mine as the survival winner.
HitMineWrongWinner(s, rc) ==
    LET cur == s.turn
        s1 == Send(Send(s, 0, MineHitEvent(rc)), 1, MineHitEvent(rc))
        s2 == [s1 EXCEPT !.mines_hit = @ \cup {rc},
                         !.scores[cur] = IF mode = "scoring" THEN @ - 1 ELSE @]
    IN IF mode = "survival"
       THEN Return(SendEnd(s2, cur, "mine"))
       ELSE IF Cardinality(s2.mines_hit) = Cardinality(mines)
       THEN Return(SendEnd(s2, ByScore(s2.scores), "all_mines_hit"))
       ELSE AfterSelect(s2)

\* HitMine testing the number of claimed cells, not of mines hit, against the
\* number of mines.
HitMineCountsSelected(s, rc) ==
    LET cur == s.turn
        s1 == Send(Send(s, 0, MineHitEvent(rc)), 1, MineHitEvent(rc))
        s2 == [s1 EXCEPT !.mines_hit = @ \cup {rc},
                         !.scores[cur] = IF mode = "scoring" THEN @ - 1 ELSE @]
    IN IF mode = "survival"
       THEN Return(SendEnd(s2, 1 - cur, "mine"))
       ELSE IF Len(s2.selected) = Cardinality(mines)
       THEN Return(SendEnd(s2, ByScore(s2.scores), "all_mines_hit"))
       ELSE AfterSelect(s2)

\* HitMine without the all-mines-hit test of lines 148-158.
HitMineNoAllHit(s, rc) ==
    LET cur == s.turn
        s1 == Send(Send(s, 0, MineHitEvent(rc)), 1, MineHitEvent(rc))
        s2 == [s1 EXCEPT !.mines_hit = @ \cup {rc},
                         !.scores[cur] = IF mode = "scoring" THEN @ - 1 ELSE @]
    IN IF mode = "survival"
       THEN Return(SendEnd(s2, 1 - cur, "mine"))
       ELSE AfterSelect(s2)

\* HitMine without the score penalty of lines 137-138.
HitMineNoPenalty(s, rc) ==
    LET cur == s.turn
        s1 == Send(Send(s, 0, MineHitEvent(rc)), 1, MineHitEvent(rc))
        s2 == [s1 EXCEPT !.mines_hit = @ \cup {rc}]
    IN IF mode = "survival"
       THEN Return(SendEnd(s2, 1 - cur, "mine"))
       ELSE IF Cardinality(s2.mines_hit) = Cardinality(mines)
       THEN Return(SendEnd(s2, ByScore(s2.scores), "all_mines_hit"))
       ELSE AfterSelect(s2)

\* HitMine without the mines_hit.add of line 136.
HitMineForgets(s, rc) ==
    LET cur == s.turn
        s1 == Send(Send(s, 0, MineHitEvent(rc)), 1, MineHitEvent(rc))
        s2 == [s1 EXCEPT !.scores[cur] = IF mode = "scoring" THEN @ - 1 ELSE @]
    IN IF mode = "survival"
       THEN Return(SendEnd(s2, 1 - cur, "mine"))
       ELSE IF Cardinality(s2.mines_hit) = Cardinality(mines)
       THEN Return(SendEnd(s2, ByScore(s2.scores), "all_mines_hit"))
       ELSE AfterSelect(s2)

\* HitMine telling only the other player of the mine.
HitMineOneSided(s, rc) ==
    LET cur == s.turn
        s1 == Send(s, 1 - cur, MineHitEvent(rc))
        s2 == [s1 EXCEPT !.mines_hit = @ \cup {rc},
                         !.scores[cur] = IF mode = "scoring" THEN @ - 1 ELSE @]
    IN IF mode = "survival"
       THEN Return(SendEnd(s2, 1 - cur, "mine"))
       ELSE IF Cardinality(s2.mines_hit) = Cardinality(mines)
       THEN Return(SendEnd(s2, ByScore(s2.scores), "all_mines_hit"))
       ELSE AfterSelect(s2)

\* lines 127-158: the selected cell is a mine
HitMine(s, rc) ==
    LET cur == s.turn
        s1 == Send(Send(s, 0, MineHitEvent(rc)), 1, MineHitEvent(rc))
        s2 == [s1 EXCEPT !.mines_hit = @ \cup {rc},
                         !.scores[cur] = IF mode = "scoring" THEN @ - 1 ELSE @]
    IN IF mode = "survival"
       THEN Return(SendEnd(s2, 1 - cur, "mine"))
       ELSE IF Cardinality(s2.mines_hit) = Cardinality(mines)
       THEN Return(SendEnd(s2, ByScore(s2.scores), "all_mines_hit"))
       ELSE AfterSelect(s2)

\* HitSafe giving the point to both players.
HitSafeBoth(s) ==
    AfterSelect([s EXCEPT !.scores = IF mode = "scoring"
                                     THEN [p \in Players |-> @[p] + 1] ELSE @])

\* HitSafe without the mode test of line 162: a safe cell scores in survival.
HitSafeAnyMode(s) ==
    AfterSelect([s EXCEPT !.scores[s.turn] = @ + 1])

\* lines 160-163: the selected cell is safe
HitSafe(s) ==
    AfterSelect([s EXCEPT !.scores[s.turn] = IF mode = "scoring" THEN @ + 1 ELSE @])

\* Select without the test of line 123: a claimed cell is assigned again.
SelectNoCheck(s, req) ==
    LET rc == <<PyInt(req.r), PyInt(req.c)>>
        s1 == [s EXCEPT !.selected = DictSet(@, rc, s.turn)]
    IN IF IntRaises(req.r) \/ IntRaises(req.c) THEN Crash(s)
       ELSE IF rc \in mines THEN HitMine(s1, rc)
       ELSE HitSafe(s1)

\* lines 120-126: a select request from the current player
Select(s, req) ==
    LET rc == <<PyInt(req.r), PyInt(req.c)>>
        s1 == [s EXCEPT !.selected = DictSet(@, rc, s.turn)]
    IN IF IntRaises(req.r) \/ IntRaises(req.c) THEN Crash(s)
       ELSE IF HasKey(s.selected, rc)
       THEN IF Fails(sock) THEN Crash(Send(s, sock, ErrorEvent))
            ELSE [Send(s, sock, ErrorEvent) EXCEPT !.pc = "turn"]
       ELSE IF rc \in mines THEN HitMine(s1, rc)
       ELSE HitSafe(s1)

\* lines 115-180: a request left the wait loop
Resolve(s, req) ==
    IF req.type = "nondict" THEN Crash(s)
    ELSE IF req.type = "leave" THEN Return(EndDueToDisconnect(s, s.turn))
    ELSE IF req.type = "select" THEN Select(s, req)
    ELSE [s EXCEPT !.pc = "turn"]

\* lines 90-95: the other socket, read only while req is None
WakeOther(s) ==
    LET other == 1 - s.turn
        got == Recv(s, other)
    IN IF ~Readable(s, other) THEN s
       ELSE IF got.raised THEN Crash(s)
       ELSE IF got.msg.type = "nondict" THEN Crash(got.s)
       ELSE IF got.msg.type = "leave" THEN Return(EndDueToDisconnect(got.s, other))
       ELSE got.s

\* lines 78-95 and what follows when req is set: one return of select() with
\* a readable socket
RunWake(s) ==
    LET cur == s.turn
        got == Recv(s, cur)
    IN IF ~Readable(s, cur) THEN WakeOther(s)
       ELSE IF got.raised THEN Crash(s)
       ELSE IF got.msg.type = "nondict" THEN Crash(got.s)
       ELSE IF got.msg.type = "leave" THEN Return(EndDueToDisconnect(got.s, cur))
       ELSE IF got.msg = None THEN WakeOther(got.s)
       ELSE Resolve(got.s, got.msg)

\* RunTimeout naming the player who timed out as the survival winner.
RunTimeoutWrongWinner(s) ==
    LET cur == s.turn
        other == 1 - cur
        s0 == [s EXCEPT !.turn = other]
        s1 == Send(s0, 0, InfoEvent(cur))
        s2 == Send(s1, 1, InfoEvent(cur))
    IN IF mode = "survival" THEN Return(SendEnd(s, cur, "timeout"))
       ELSE IF Fails(0) THEN Return(EndDueToDisconnect(s1, cur))
       ELSE IF Fails(1) THEN Return(EndDueToDisconnect(s2, cur))
       ELSE [s2 EXCEPT !.pc = "turn"]

\* RunTimeout without line 105: the scoring timeout leaves the turn where it
\* was.
RunTimeoutNoFlip(s) ==
    LET cur == s.turn
        other == 1 - cur
        s1 == Send(s, 0, InfoEvent(cur))
        s2 == Send(s1, 1, InfoEvent(cur))
    IN IF mode = "survival" THEN Return(SendEnd(s, other, "timeout"))
       ELSE IF Fails(0) THEN Return(EndDueToDisconnect(s1, cur))
       ELSE IF Fails(1) THEN Return(EndDueToDisconnect(s2, cur))
       ELSE [s2 EXCEPT !.pc = "turn"]

\* RunTimeout without the mode test of line 99: a survival timeout passes the
\* turn.
RunTimeoutSurvivalPasses(s) ==
    LET cur == s.turn
        other == 1 - cur
        s0 == [s EXCEPT !.turn = other]
        s1 == Send(s0, 0, InfoEvent(cur))
        s2 == Send(s1, 1, InfoEvent(cur))
    IN IF Fails(0) THEN Return(EndDueToDisconnect(s1, cur))
       ELSE IF Fails(1) THEN Return(EndDueToDisconnect(s2, cur))
       ELSE [s2 EXCEPT !.pc = "turn"]

\* lines 97-113: the window elapsed with req still None
RunTimeout(s) ==
    LET cur == s.turn
        other == 1 - cur
        s0 == [s EXCEPT !.turn = other]
        s1 == Send(s0, 0, InfoEvent(cur))
        s2 == Send(s1, 1, InfoEvent(cur))
    IN IF mode = "survival" THEN Return(SendEnd(s, other, "timeout"))
       ELSE IF Fails(0) THEN Return(EndDueToDisconnect(s1, cur))
       ELSE IF Fails(1) THEN Return(EndDueToDisconnect(s2, cur))
       ELSE [s2 EXCEPT !.pc = "turn"]

-----------------------------------------------------------------------------
\* MatchMaker and handle_client.

Conns == 1..NConns
\* no connection, no thread
Nobody == 0

\* values of the "mode" key of a join message: the two modes, a string that
\* names no mode, the key missing, and a JSON list
NoMode == "<absent>"
ListMode == "<list>"
JoinModes == Modes \cup {"ranked", NoMode, ListMode}
JoinMsg(m) == [type |-> "join", mode |-> m]
NoMsg == [type |-> "<unread>"]
FirstMsgs == {JoinMsg(m) : m \in JoinModes} \cup {None, Leave, NonDict}

\* the lines that arrive slowly
SlowMsgs == {JoinMsg("survival"), Leave}
\* the timeout of the first read, in seconds
Grace == 30

\* msg.get('mode', 'survival')
ModeOf(msg) == IF msg.mode = NoMode THEN "survival" ELSE msg.mode
\* a list is not hashable: used as a dict key it raises TypeError
Unhashable(m) == m = ListMode
\* the keys self.queues can come to hold
QueueKeys == Modes \cup {"ranked"}

\* QueueOf sending every string that names no mode to the survival list.
QueueOfKnown(m) == IF m \in Modes THEN m ELSE "survival"

\* self.queues.setdefault(mode, []): the list under the key mode, an empty
\* list put there when the key is new
QueueOf(m) == m

\* GameSession with the two sockets swapped.
NewSessionSwapped(first, second, m) ==
    [socks |-> <<second, first>>, mode |-> m, selected |-> <<>>,
     scores |-> [p \in Players |-> 0], turn |-> 0, running |-> TRUE]

\* GameSession(a, b, mode): socks = [a, b]
NewSession(first, second, m) ==
    [socks |-> <<first, second>>, mode |-> m, selected |-> <<>>,
     scores |-> [p \in Players |-> 0], turn |-> 0, running |-> TRUE]

\* CanAcquire without mutual exclusion.
CanAcquireAlways == TRUE

\* `with self.lock` is entered when no thread holds the lock
CanAcquire == lock = Nobody

\* MatchMaker.__init__, and the threads main() started
MMInit ==
    /\ lock = Nobody
    /\ queues = [m \in QueueKeys |-> <<>>]
    /\ sessions = <<>>
    /\ hpc = [c \in Conns |-> "recv"]
    /\ joinmsg = [c \in Conns |-> NoMsg]
    /\ pop_a = [c \in Conns |-> Nobody]
    /\ pop_b = [c \in Conns |-> Nobody]
    /\ arrivals = <<>>
    /\ late = {}

-----------------------------------------------------------------------------
\* GameSession.__init__: the mines are 2 to 4 distinct cells.
Init ==
    /\ MMInit
    /\ mode \in Modes
    /\ mines \in MineSets
    /\ mines_hit = {}
    /\ selected = <<>>
    /\ scores = [p \in Players |-> 0]
    /\ turn = 0
    /\ running = TRUE
    /\ pc = "start"
    /\ elapsed = 0
    /\ sent = <<>>
    /\ closed = FALSE
    /\ inbox = [p \in Players |-> <<>>]
    /\ conn = [p \in Players |-> "up"]
    /\ rounds = 0
    /\ nmsgs = 0
    /\ nfaults = 0
    /\ script \in Scripts

Env == <<mode, mines, conn, nmsgs, nfaults, script, mmrest>>

Start ==
    /\ pc = "start"
    /\ Commit(RunStart(Sess))
    /\ UNCHANGED <<Env, rounds>>

Turn ==
    /\ pc = "turn"
    /\ rounds < (IF script = "free" THEN MaxRounds ELSE FillRounds)
    /\ Commit(RunTurn(Sess))
    /\ rounds' = rounds + 1
    /\ UNCHANGED Env

Wake ==
    /\ pc = "wait"
    /\ elapsed < Window
    /\ \E p \in Players : Readable(Sess, p)
    /\ Commit(RunWake(Sess))
    /\ UNCHANGED <<Env, rounds>>

Timeout ==
    /\ pc = "wait"
    /\ elapsed >= Window
    /\ Commit(RunTimeout(Sess))
    /\ UNCHANGED <<Env, rounds>>

\* time passes while the thread sits in select()
Tick ==
    /\ script = "free"
    /\ pc = "wait"
    /\ elapsed < Window
    /\ elapsed' = IF elapsed + TickLen > Window THEN Window ELSE elapsed + TickLen
    /\ UNCHANGED <<mode, mines, mines_hit, selected, scores, turn, running, pc,
                   sent, closed, inbox, conn, rounds, nmsgs, nfaults, script, mmvars>>

\* a client writes one line to its socket; a line written while the thread is
\* not in select() is seen by the next select() like one written at its start
ClientSend(p, m) ==
    /\ script = "free"
    /\ pc = "wait"
    /\ conn[p] = "up"
    /\ Len(inbox[p]) < MaxInbox
    /\ nmsgs < MaxMsgs
    /\ inbox' = [inbox EXCEPT ![p] = Append(@, m)]
    /\ nmsgs' = nmsgs + 1
    /\ UNCHANGED <<mode, mines, mines_hit, selected, scores, turn, running, pc,
                   elapsed, sent, closed, conn, rounds, nfaults, script, mmvars>>

\* the player whose turn it is sends the next select of the fill script
FillSend(rc) ==
    /\ script = "fill"
    /\ pc = "wait"
    /\ inbox[turn] = <<>>
    /\ rc \in FillChoices(Len(selected))
    /\ inbox' = [inbox EXCEPT ![turn] = Append(@, SelectMsg(rc))]
    /\ UNCHANGED <<mode, mines, mines_hit, selected, scores, turn, running, pc,
                   elapsed, sent, closed, conn, rounds, nmsgs, nfaults, script, mmvars>>

\* the player whose turn it is sends the next select of the grid script
GridSend ==
    /\ script = "grid"
    /\ pc = "wait"
    /\ inbox[turn] = <<>>
    /\ Len(selected) < GridSize * GridSize
    /\ inbox' = [inbox EXCEPT ![turn] = Append(@, SelectMsg(GridCell(Len(selected))))]
    /\ UNCHANGED <<mode, mines, mines_hit, selected, scores, turn, running, pc,
                   elapsed, sent, closed, conn, rounds, nmsgs, nfaults, script, mmvars>>

\* a client closes its socket: the server reads end of stream after the
\* lines already written
ClientClose(p) ==
    /\ script = "free"
    /\ pc \notin {"done", "crashed"}
    /\ conn[p] = "up"
    /\ nfaults < MaxFaults
    /\ nfaults' = nfaults + 1
    /\ conn' = [conn EXCEPT ![p] = "eof"]
    /\ UNCHANGED <<mode, mines, mines_hit, selected, scores, turn, running, pc,
                   elapsed, sent, closed, inbox, rounds, nmsgs, script, mmvars>>

\* the connection is reset: unread lines are lost, reads and writes raise
ConnReset(p) ==
    /\ script = "free"
    /\ pc \notin {"done", "crashed"}
    /\ conn[p] # "reset"
    /\ nfaults < MaxFaults
    /\ nfaults' = nfaults + 1
    /\ conn' = [conn EXCEPT ![p] = "reset"]
    /\ inbox' = [inbox EXCEPT ![p] = <<>>]
    /\ UNCHANGED <<mode, mines, mines_hit, selected, scores, turn, running, pc,
                   elapsed, sent, closed, rounds, nmsgs, script, mmvars>>

Next ==
    \/ Start
    \/ Turn
    \/ Wake
    \/ Timeout
    \/ Tick
    \/ \E p \in Players, m \in Msgs : ClientSend(p, m)
    \/ \E rc \in FillChoices(Len(selected)) : FillSend(rc)
    \/ GridSend
    \/ \E p \in Players : ClientClose(p)
    \/ \E p \in Players : ConnReset(p)

Spec == Init /\ [][Next]_vars

-----------------------------------------------------------------------------
\* handle_client and MatchMaker.join, one action per statement that reads or
\* writes the shared lists.

\* the thread's local `mode`
JMode(c) == ModeOf(joinmsg[c])
Queue(c) == queues[QueueOf(JMode(c))]

\* handle_client lines 214-224: the first message decides; None, a message
\* that is no join and a value without .get all end in conn.close()
HandleRecv(c, m) ==
    /\ hpc[c] = "recv"
    /\ joinmsg' = [joinmsg EXCEPT ![c] = m]
    /\ hpc' = [hpc EXCEPT ![c] = IF m.type = "join" THEN "lock" ELSE "closed"]
    /\ UNCHANGED <<svars, late, lock, queues, sessions, pop_a, pop_b, arrivals>>

\* the same read when the bytes of the line come one at a time, none more
\* than Grace seconds after the one before, the newline later than Grace
\* seconds after the accept: sock.settimeout bounds each recv(1) and no
\* recv(1) times out, so recv_msg returns the line
HandleRecvSlow(c, m) ==
    /\ hpc[c] = "recv"
    /\ joinmsg' = [joinmsg EXCEPT ![c] = m]
    /\ hpc' = [hpc EXCEPT ![c] = IF m.type = "join" THEN "lock" ELSE "closed"]
    /\ late' = late \cup {c}
    /\ UNCHANGED <<svars, lock, queues, sessions, pop_a, pop_b, arrivals>>

\* line 22: with self.lock
JoinAcquire(c) ==
    /\ hpc[c] = "lock"
    /\ CanAcquire
    /\ lock' = c
    /\ hpc' = [hpc EXCEPT ![c] = "append"]
    /\ UNCHANGED <<svars, late, queues, sessions, joinmsg, pop_a, pop_b, arrivals>>

\* lines 23-24: q = setdefault(mode, []); q.append(client_sock).  TypeError
\* leaves the with block and is caught in handle_client, which closes conn.
JoinAppend(c) ==
    /\ hpc[c] = "append"
    /\ IF Unhashable(JMode(c))
       THEN /\ lock' = Nobody
            /\ hpc' = [hpc EXCEPT ![c] = "closed"]
            /\ UNCHANGED <<queues, arrivals>>
       ELSE /\ queues' = [queues EXCEPT ![QueueOf(JMode(c))] = Append(@, c)]
            /\ arrivals' = Append(arrivals, c)
            /\ hpc' = [hpc EXCEPT ![c] = "test"]
            /\ UNCHANGED lock
    /\ UNCHANGED <<svars, late, sessions, joinmsg, pop_a, pop_b>>

\* line 25: if len(q) >= 2; otherwise join returns
JoinTest(c) ==
    /\ hpc[c] = "test"
    /\ IF Len(Queue(c)) >= 2
       THEN hpc' = [hpc EXCEPT ![c] = "pop_a"] /\ UNCHANGED lock
       ELSE hpc' = [hpc EXCEPT ![c] = "joined"] /\ lock' = Nobody
    /\ UNCHANGED <<svars, late, queues, sessions, joinmsg, pop_a, pop_b, arrivals>>

\* line 26: a = q.pop(0); IndexError on an empty list
JoinPopA(c) ==
    /\ hpc[c] = "pop_a"
    /\ IF Queue(c) = <<>>
       THEN /\ lock' = Nobody
            /\ hpc' = [hpc EXCEPT ![c] = "raised"]
            /\ UNCHANGED <<queues, pop_a>>
       ELSE /\ pop_a' = [pop_a EXCEPT ![c] = Head(Queue(c))]
            /\ queues' = [queues EXCEPT ![QueueOf(JMode(c))] = Tail(@)]
            /\ hpc' = [hpc EXCEPT ![c] = "pop_b"]
            /\ UNCHANGED lock
    /\ UNCHANGED <<svars, late, sessions, joinmsg, pop_b, arrivals>>

\* line 27: b = q.pop(0)
JoinPopB(c) ==
    /\ hpc[c] = "pop_b"
    /\ IF Queue(c) = <<>>
       THEN /\ lock' = Nobody
            /\ hpc' = [hpc EXCEPT ![c] = "raised"]
            /\ pop_a' = [pop_a EXCEPT ![c] = Nobody]
            /\ UNCHANGED <<queues, pop_b>>
       ELSE /\ pop_b' = [pop_b EXCEPT ![c] = Head(Queue(c))]
            /\ queues' = [queues EXCEPT ![QueueOf(JMode(c))] = Tail(@)]
            /\ hpc' = [hpc EXCEPT ![c] = "create"]
            /\ UNCHANGED <<lock, pop_a>>
    /\ UNCHANGED <<svars, late, sessions, joinmsg, arrivals>>

\* lines 28-29: the session is created and started, the with block ends and
\* join returns
JoinCreate(c) ==
    /\ hpc[c] = "create"
    /\ sessions' = Append(sessions, NewSession(pop_a[c], pop_b[c], JMode(c)))
    /\ lock' = Nobody
    /\ hpc' = [hpc EXCEPT ![c] = "joined"]
    /\ pop_a' = [pop_a EXCEPT ![c] = Nobody]
    /\ pop_b' = [pop_b EXCEPT ![c] = Nobody]
    /\ UNCHANGED <<svars, late, queues, joinmsg, arrivals>>

\* one session's state stands for the state of every session created
InitMM ==
    /\ Init
    /\ mode = "survival"
    /\ mines = {<<0, 0>>, <<0, 1>>}
    /\ script = "free"

NextMM ==
    \/ \E c \in Conns, m \in FirstMsgs : HandleRecv(c, m)
    \/ \E c \in Conns, m \in SlowMsgs : HandleRecvSlow(c, m)
    \/ \E c \in Conns : JoinAcquire(c)
    \/ \E c \in Conns : JoinAppend(c)
    \/ \E c \in Conns : JoinTest(c)
    \/ \E c \in Conns : JoinPopA(c)
    \/ \E c \in Conns : JoinPopB(c)
    \/ \E c \in Conns : JoinCreate(c)

SpecMM == InitMM /\ [][NextMM]_vars

-----------------------------------------------------------------------------
\* Properties.

\* the events sent in a step, and the types of the events of a log
Appended == SubSeq(sent', Len(sent) + 1, Len(sent'))
Types(log) == [i \in 1..Len(log) |-> log[i].ev.type]
BothUp == \A p \in Players : conn[p] = "up"
\* the session has broadcast its end event; the event
Ended == Len(sent) >= 2 /\ sent[Len(sent)].ev.type = "end"
EndEv == sent[Len(sent)].ev
\* the thread leaves select(): the only steps that change pc from "wait"
LeavesWait == pc = "wait" /\ pc' # "wait"

\* C1: at most one end event is broadcast, and no event of any kind is sent on
\* either connection after it: in the order of sending, an end event is
\* followed only by the end event to the other connection.
C1_NothingAfterEnd ==
    \A i \in 1..Len(sent) :
        sent[i].ev.type = "end" =>
            \/ i = Len(sent)
            \/ /\ i = Len(sent) - 1
               /\ sent[Len(sent)].ev.type = "end"
               /\ sent[Len(sent)].to # sent[i].to

\* a session that sent events, broadcast its end and returned
C1_Witness ==
    /\ pc = "done"
    /\ Len(sent) >= 6
    /\ Ended
    /\ sent[Len(sent) - 1].ev.type = "end"

\* C2: a leave that is unread on a player's connection when the thread wakes
\* from select() ends the session in that step, with the other player as
\* winner and reason opponent_quit, and without resolving a selection; the
\* other connection holds nothing or a well-formed select at that moment.
C2_LeaveEndsAtOnce ==
    [][\A p \in Players :
          (/\ LeavesWait
           /\ elapsed < Window
           /\ BothUp
           /\ inbox[p] # <<>> /\ Head(inbox[p]) = Leave
           /\ (inbox[1 - p] = <<>> \/ Head(inbox[1 - p]) \in {SelectMsg(rc) : rc \in SelCells}))
          => (/\ pc' = "done"
              /\ selected' = selected
              /\ Types(Appended) = <<"end", "end">>
              /\ Appended[1].ev.winner = 1 - p
              /\ Appended[1].ev.reason = "opponent_quit")]_vars

\* C3: in survival mode a step that records a mine in the Selection Map sends
\* mine_hit and then end to both connections and nothing else, the end naming
\* the other player as winner with reason mine, and the thread returns.
C3_SurvivalMineEnds ==
    [][(/\ mode = "survival"
        /\ Len(selected') > Len(selected)
        /\ selected'[Len(selected')].rc \in mines)
       => (/\ pc' = "done"
           /\ ~running'
           /\ Len(selected') = Len(selected) + 1
           /\ selected'[Len(selected')].p = turn
           /\ Types(Appended) = <<"mine_hit", "mine_hit", "end", "end">>
           /\ \A i \in {3, 4} : /\ Appended[i].ev.winner = 1 - turn
                                /\ Appended[i].ev.reason = "mine")]_vars

\* a survival session ended by a mine
C3_Witness ==
    /\ mode = "survival"
    /\ pc = "done"
    /\ Ended
    /\ EndEv.reason = "mine"
    /\ sent[Len(sent) - 2].ev.type = "mine_hit"
    /\ selected[Len(selected)].rc \in mines

\* C4: in survival mode, when the move window has elapsed with no request,
\* the step that leaves the wait broadcasts end with reason timeout and the
\* non-current player as winner, and the thread returns.
C4_SurvivalTimeoutEnds ==
    [][(mode = "survival" /\ LeavesWait /\ elapsed >= Window)
       => (/\ pc' = "done"
           /\ ~running'
           /\ Types(Appended) = <<"end", "end">>
           /\ \A i \in {1, 2} : /\ Appended[i].ev.winner = 1 - turn
                                /\ Appended[i].ev.reason = "timeout"
                                /\ Appended[i].to = i - 1)]_vars

\* a survival session ended by a timeout
C4_Witness ==
    /\ mode = "survival"
    /\ pc = "done"
    /\ Ended
    /\ EndEv.reason = "timeout"
    /\ EndEv.winner = 1 - turn

\* what an end event's winner is when the scores decide it
WinnerByScore(ev) ==
    /\ ev.scores[0] > ev.scores[1] => ev.winner = 0
    /\ ev.scores[1] > ev.scores[0] => ev.winner = 1
    /\ ev.scores[0] = ev.scores[1] => ev.winner = -1

\* the turn broadcast names the player the Turn Cursor points at
TurnNamesCursor ==
    (pc = "turn" /\ sent' # sent) =>
        (/\ Appended[1].ev.type = "turn"
         /\ Appended[1].ev.player = turn
         /\ Appended[1].to = 0)

\* C5 as stated: a scoring-mode timeout never ends the match; it changes no
\* score, Selection Map or Hit-Mines, flips the Turn Cursor, sends info to
\* both connections and nothing else, and the turn broadcast for the other
\* player is next.
C5_ScoringTimeoutNeverEnds ==
    [][/\ (mode = "scoring" /\ LeavesWait /\ elapsed >= Window)
          => (/\ pc' = "turn"
              /\ running'
              /\ scores' = scores
              /\ selected' = selected
              /\ mines_hit' = mines_hit
              /\ turn' = 1 - turn
              /\ Types(Appended) = <<"info", "info">>
              /\ \A i \in {1, 2} : Appended[i].to = i - 1)
       /\ TurnNamesCursor]_vars

\* C5 amended: a scoring-mode timeout changes no score, Selection Map or
\* Hit-Mines and flips the Turn Cursor; when no send of the info event fails
\* it sends info to both connections and nothing else, sends no end, and the
\* turn broadcast for the other player is next; when a send of the info event
\* fails the session ends with reason opponent_quit.
C5_ScoringTimeoutPassesTurn ==
    [][/\ (mode = "scoring" /\ LeavesWait /\ elapsed >= Window)
          => (/\ scores' = scores
              /\ selected' = selected
              /\ mines_hit' = mines_hit
              /\ turn' = 1 - turn
              /\ IF \A p \in Players : ~Fails(p)
                 THEN /\ pc' = "turn"
                      /\ running'
                      /\ Types(Appended) = <<"info", "info">>
                      /\ \A i \in {1, 2} : Appended[i].to = i - 1 /\ Appended[i].ok
                 ELSE /\ pc' = "done"
                      /\ ~running'
                      /\ Len(Appended) \in {3, 4}
                      /\ \A i \in 1..Len(Appended) :
                            IF i <= Len(Appended) - 2
                            THEN Appended[i].ev.type = "info"
                            ELSE /\ Appended[i].ev.type = "end"
                                 /\ Appended[i].ev.reason = "opponent_quit")
       /\ TurnNamesCursor]_vars

\* a scoring session in which player 0 timed out, both got the info event,
\* and the next turn event named player 1
C5_Witness ==
    /\ mode = "scoring"
    /\ \E i \in 1..Len(sent) :
          /\ i + 2 <= Len(sent)
          /\ sent[i].ev.type = "info" /\ sent[i].ev.player = 0 /\ sent[i].ok
          /\ sent[i + 1].ev.type = "info" /\ sent[i + 1].ok
          /\ sent[i + 2].ev.type = "turn" /\ sent[i + 2].ev.player = 1

C7_AllMinesHit ==
    [][/\ (\E i \in 1..Len(Appended) :
              /\ Appended[i].ev.type = "end"
              /\ Appended[i].ev.reason = "all_mines_hit")
          => (mines_hit' = mines /\ mode = "scoring")
       /\ (/\ mode = "scoring"
           /\ Len(selected') > Len(selected)
           /\ selected'[Len(selected')].rc \in mines
           /\ mines_hit \cup {selected'[Len(selected')].rc} = mines)
          => (/\ pc' = "done"
              /\ ~running'
              /\ Types(Appended) = <<"mine_hit", "mine_hit", "end", "end">>
              /\ \A i \in {3, 4} : /\ Appended[i].ev.reason = "all_mines_hit"
                                   /\ Appended[i].ev.mines = mines)]_vars

\* the two players each hit one of two mines: a tie with scores [-1,-1]
C7_Witness ==
    /\ mode = "scoring"
    /\ Cardinality(mines) = 2
    /\ Ended
    /\ EndEv.reason = "all_mines_hit"
    /\ EndEv.winner = -1
    /\ EndEv.scores = [p \in Players |-> -1]
    /\ selected[1].p # selected[2].p

\* C8: no step changes or removes an entry of the Selection Map, and no
\* coordinate is the key of two entries.
C8_ClaimedOnce ==
    [][/\ \A i \in 1..Len(selected) :
              i <= Len(selected') /\ selected'[i] = selected[i]
       /\ \A i, j \in 1..Len(selected') :
              i # j => selected'[i].rc # selected'[j].rc]_vars

\* player 1 selected the cell player 0 holds and was answered with an error
C8_Witness ==
    /\ Len(selected) = 1
    /\ selected[1].p = 0
    /\ turn = 1
    /\ pc = "turn"
    /\ sent[Len(sent)].ev.type = "error"

\* C9: every key of the Selection Map is a coordinate of the 8x8 grid.
C9_KeysInGrid == \A i \in 1..Len(selected) : InGrid(selected[i].rc)

\* C10: when the thread reads a select of a claimed coordinate from the
\* current player, it sends one error event, to that player, and changes
\* neither the Selection Map, the scores, Hit-Mines nor the Turn Cursor.
C10_ErrorToRequester ==
    [][(/\ LeavesWait
        /\ elapsed < Window
        /\ BothUp
        /\ inbox[turn] # <<>>
        /\ Head(inbox[turn]).type = "select"
        /\ ~IntRaises(Head(inbox[turn]).r)
        /\ ~IntRaises(Head(inbox[turn]).c)
        /\ HasKey(selected, <<PyInt(Head(inbox[turn]).r), PyInt(Head(inbox[turn]).c)>>))
       => (/\ Types(Appended) = <<"error">>
           /\ Appended[1].to = turn
           /\ selected' = selected
           /\ scores' = scores
           /\ mines_hit' = mines_hit
           /\ turn' = turn)]_vars

\* C11: a message of the current player that resolves nothing starts no new
\* move window: every turn broadcast follows the start handshake, the update
\* of a resolved selection, or the info of a timeout, never an error event or
\* another turn event.
C11_NoNewWindow ==
    \A i \in 2..Len(sent) :
        (sent[i].ev.type = "turn" /\ sent[i].to = 0) =>
            sent[i - 1].ev.type \in {"start", "update", "info"}

\* C12: a session that leaves the wait while player p's connection is at end
\* of stream, with nothing else to read on either connection, ends with p as
\* loser, the other player as winner and reason opponent_quit.
C12_DisconnectLoses ==
    [][\A p \in Players :
          (/\ LeavesWait
           /\ conn[p] = "eof"
           /\ inbox[p] = <<>>
           /\ conn[1 - p] = "up"
           /\ inbox[1 - p] = <<>>)
          => (/\ pc' = "done"
              /\ Types(Appended) = <<"end", "end">>
              /\ Appended[1].ev.winner = 1 - p
              /\ Appended[1].ev.reason = "opponent_quit")]_vars

\* C13: a step in which the send of a turn, info, update or error event fails
\* goes on to broadcast end with the owner of that connection as loser, the
\* other player as winner and reason opponent_quit.
C13_FailedSendLoses ==
    [][\A i \in 1..Len(Appended) :
          (/\ ~Appended[i].ok
           /\ Appended[i].ev.type \in {"turn", "info", "update", "error"})
          => (/\ pc' = "done"
              /\ Len(Appended) = i + 2
              /\ \A j \in {i + 1, i + 2} :
                    /\ Appended[j].ev.type = "end"
                    /\ Appended[j].ev.winner = 1 - Appended[i].to
                    /\ Appended[j].ev.reason = "opponent_quit")]_vars

\* a selection is resolved in this step; the entry it added
Resolved == Len(selected') = Len(selected) + 1
NewEntry == selected'[Len(selected')]

\* C18: a resolved selection that does not end the match, a safe cell or a
\* mine, flips the turn away from the player who moved, and the turn event
\* broadcast after its update names the player who did not move.
C18_TurnFlips ==
    [][/\ (Resolved /\ pc' # "done")
          => (turn' = 1 - turn /\ NewEntry.p = turn)
       /\ (/\ pc = "turn" /\ pc' = "wait"
           /\ sent[Len(sent)].ev.type = "update")
          => \A i \in 1..Len(Appended) :
                Appended[i].ev.player = 1 - selected[Len(selected)].p]_vars

C18_Witness ==
    /\ mode = "scoring"
    /\ pc = "wait"
    /\ Len(selected) = 1
    /\ selected[1].p = 0
    /\ selected[1].rc \in mines
    /\ Cardinality(mines) > 1
    /\ turn = 1
    /\ sent[Len(sent)].ev.type = "turn"
    /\ sent[Len(sent)].ev.player = 1
    /\ sent[Len(sent) - 2].ev.type = "update"

\* the scores of a Selection Map when the mines in it are `hit`
ScoresOf(sel, hit) ==
    [p \in Players |->
        IF mode = "scoring"
        THEN Cardinality({i \in 1..Len(sel) : sel[i].p = p /\ sel[i].rc \notin hit})
             - Cardinality({i \in 1..Len(sel) : sel[i].p = p /\ sel[i].rc \in hit})
        ELSE 0]
\* a Selection Map that gives each cell its owner and nothing else
OwnersOnly(sel) == \A i \in 1..Len(sel) : DOMAIN sel[i] = {"rc", "p"}

\* C19: no event shows a mine that was not hit: the coordinate of every
\* mine_hit event is in mines_hit, the mines of the end event are mines_hit,
\* and a turn or update event carries the Selection Map and the scores only,
\* the scores being those the Selection Map and the mines hit determine.
C19_NoUnhitMine ==
    \A i \in 1..Len(sent) :
        LET ev == sent[i].ev IN
        /\ ev.type = "mine_hit" => <<ev.r, ev.c>> \in mines_hit
        /\ ev.type = "end" => ev.mines = mines_hit /\ OwnersOnly(ev.selected)
        /\ ev.type = "turn" =>
              /\ DOMAIN ev = {"type", "player", "time", "board"}
              /\ DOMAIN ev.board = {"selected", "scores"}
              /\ OwnersOnly(ev.board.selected)
              /\ ev.board.scores = ScoresOf(ev.board.selected, mines_hit)
        /\ ev.type = "update" =>
              /\ DOMAIN ev = {"type", "selected", "scores"}
              /\ OwnersOnly(ev.selected)
              /\ ev.scores = ScoresOf(ev.selected, mines_hit)

C19_Witness ==
    /\ Ended
    /\ EndEv.mines # {}
    /\ EndEv.mines # mines
    /\ \E i \in 1..Len(sent) :
          sent[i].ev.type = "turn" /\ sent[i].ev.board.selected # <<>>

\* C20: a step that resolves a selection of a mine sends mine_hit with the
\* cell's coordinate to connection 0 and to connection 1 before anything
\* else, and every update or end event of the step comes after the two.
C20_MineHitFirst ==
    [][(Resolved /\ NewEntry.rc \in mines)
          => /\ Len(Appended) > 2
             /\ \A p \in Players :
                   /\ Appended[p + 1].to = p
                   /\ Appended[p + 1].ev = MineHitEvent(NewEntry.rc)
             /\ \A i \in 3..Len(Appended) :
                   Appended[i].ev.type \in {"update", "end"}]_vars

C20_Witness ==
    /\ mode = "survival"
    /\ Len(sent) >= 4
    /\ Types(SubSeq(sent, Len(sent) - 3, Len(sent)))
          = <<"mine_hit", "mine_hit", "end", "end">>
    /\ EndEv.reason = "mine"
    /\ EndEv.mines = {<<sent[Len(sent) - 2].ev.r, sent[Len(sent) - 2].ev.c>>}
    /\ EndEv.winner = 1 - selected[Len(selected)].p

-----------------------------------------------------------------------------
\* Properties of the MatchMaker.

\* the connections appended with mode m, oldest first; the sessions of mode m
\* in the order they were created
Arrived(m) == SelectSeq(arrivals, LAMBDA c : JMode(c) = m)
SessionsOf(m) == SelectSeq(sessions, LAMBDA g : g.mode = m)
\* how often connection c occurs in the waiting lists, in the sessions, and
\* in the locals of a thread that is between q.pop(0) and GameSession(a, b)
InQueues(c) ==
    Cardinality({<<m, i>> \in QueueKeys \X (1..NConns) :
                    i <= Len(queues[m]) /\ queues[m][i] = c})
InSessions(c) ==
    Cardinality({<<k, j>> \in (1..Len(sessions)) \X {1, 2} :
                    sessions[k].socks[j] = c})
InHand(c) ==
    Cardinality({t \in Conns : pop_a[t] = c})
    + Cardinality({t \in Conns : pop_b[t] = c})
HasJoined(c) == \E i \in 1..Len(arrivals) : arrivals[i] = c

\* C14: the k-th session of a mode holds the (2k-1)-th and the 2k-th
\* connection that joined with that mode, the older one as player 0; and when
\* no join is in progress every pair of arrivals has its session and the
\* waiting list holds the one unpaired arrival or nothing.
C14_FifoPairs ==
    \A m \in QueueKeys :
        LET A == Arrived(m)
            S == SessionsOf(m)
        IN /\ \A k \in 1..Len(S) :
                 /\ 2 * k <= Len(A)
                 /\ S[k].socks = <<A[2 * k - 1], A[2 * k]>>
           /\ lock = Nobody =>
                 /\ Len(S) = Len(A) \div 2
                 /\ Len(queues[m]) < 2
                 /\ queues[m] = IF Len(A) % 2 = 1 THEN <<A[Len(A)]>> ELSE <<>>

C14_Witness ==
    /\ lock = Nobody
    /\ Len(arrivals) = 3
    /\ JMode(arrivals[2]) = "scoring"
    /\ sessions = <<NewSession(arrivals[1], arrivals[3], "survival")>>
    /\ arrivals[1] > arrivals[3]
    /\ queues["scoring"] = <<arrivals[2]>>

\* C15: a connection that join appended is in one place: once in one waiting
\* list, or in one session, or in the hands of the one thread that popped it
\* and holds the lock; when no thread holds the lock it is in a waiting list
\* or in a session.  A connection never appended is in none.
C15_ExactlyOnePlace ==
    \A c \in Conns :
        /\ InQueues(c) + InSessions(c) + InHand(c) = IF HasJoined(c) THEN 1 ELSE 0
        /\ InHand(c) = 1 =>
              \E t \in Conns : lock = t /\ hpc[t] \in {"pop_b", "create"}
                               /\ c \in {pop_a[t], pop_b[t]}

C15_Witness ==
    \E t, u \in Conns :
        /\ t # u
        /\ lock = t
        /\ hpc[t] = "create"
        /\ hpc[u] = "lock"
        /\ JMode(u) = JMode(t)
        /\ pop_b[t] = t
        /\ pop_a[t] \notin {t, u}
        /\ hpc[pop_a[t]] = "joined"

\* C16: both connections of a session sent a join whose mode is the
\* session's mode, every waiting connection waits in the list of the mode it
\* sent, and a connection that sent a string naming no mode is in no session
\* of mode survival or scoring.
C16_SameMode ==
    /\ \A k \in 1..Len(sessions) : \A j \in {1, 2} :
          /\ joinmsg[sessions[k].socks[j]].type = "join"
          /\ JMode(sessions[k].socks[j]) = sessions[k].mode
    /\ \A m \in QueueKeys : \A i \in 1..Len(queues[m]) :
          /\ joinmsg[queues[m][i]].type = "join"
          /\ JMode(queues[m][i]) = m
    /\ \A c \in Conns :
          (joinmsg[c].type = "join" /\ joinmsg[c].mode \notin Modes \cup {NoMode})
          => \A k \in 1..Len(sessions) :
                c \in {sessions[k].socks[1], sessions[k].socks[2]}
                => sessions[k].mode \notin Modes

C16_Witness ==
    /\ Len(arrivals) = 3
    /\ joinmsg[arrivals[1]] = JoinMsg("ranked")
    /\ queues["ranked"] = <<arrivals[1]>>
    /\ joinmsg[arrivals[2]] = JoinMsg(NoMode)
    /\ joinmsg[arrivals[3]] = JoinMsg("survival")
    /\ sessions = <<NewSession(arrivals[2], arrivals[3], "survival")>>

\* a start send has failed
StartFailed == \E i \in 1..Len(sent) : sent[i].ev.type = "start" /\ ~sent[i].ok

\* C17: the start step in which a send fails sends start events only, closes
\* both connections and ends the thread; after it nothing is sent, and no
\* step of the session changes a waiting list.
C17_StartFailureCloses ==
    [][/\ (pc = "start" /\ \E i \in 1..Len(Appended) : ~Appended[i].ok)
          => /\ pc' = "done"
             /\ closed'
             /\ \A i \in 1..Len(Appended) : Appended[i].ev.type = "start"
             /\ queues' = queues
       /\ StartFailed
          => /\ sent' = sent
             /\ closed' = closed
             /\ queues' = queues]_vars

C17_Witness ==
    /\ pc = "done"
    /\ closed
    /\ Len(sent) = 2
    /\ Types(sent) = <<"start", "start">>
    /\ sent[1].ok
    /\ ~sent[2].ok
    /\ \A m \in QueueKeys : queues[m] = <<>>

-----------------------------------------------------------------------------
\* Scores.

NoScores == [p \in Players |-> 0]

\* C21: in scoring mode a step that resolves a selection adds -1 to the score
\* of the player who selected when the cell is a mine and +1 when it is safe,
\* and leaves the other score alone; every other step leaves both alone.
C21_ScoreSteps ==
    [][mode = "scoring" =>
          IF Resolved
          THEN scores' = [scores EXCEPT
                            ![turn] = IF NewEntry.rc \in mines THEN @ - 1 ELSE @ + 1]
          ELSE scores' = scores]_vars

C21_Witness ==
    /\ mode = "scoring"
    /\ Len(selected) = 2
    /\ selected[1].rc \in mines
    /\ selected[2].rc \notin mines
    /\ scores = [p \in Players |-> IF p = selected[1].p THEN -1 ELSE 1]
    /\ \E i \in 1..Len(sent) : sent[i].ev.type = "info"

\* C22: in survival mode every turn, update and end event sent carries the
\* scores (0, 0).
C22_SurvivalZero ==
    mode = "survival" =>
        \A i \in 1..Len(sent) :
            LET ev == sent[i].ev IN
            /\ ev.type = "turn" => ev.board.scores = NoScores
            /\ ev.type \in {"update", "end"} => ev.scores = NoScores

C22_Witness ==
    /\ mode = "survival"
    /\ Ended
    /\ EndEv.reason = "mine"
    /\ Len(selected) = 2
    /\ \E i \in 1..Len(sent) :
          sent[i].ev.type = "turn" /\ Len(sent[i].ev.board.selected) = 1
    /\ \E i \in 1..Len(sent) : sent[i].ev.type = "update"

\* the coordinates of the grid
Grid == (0..(GridSize - 1)) \X (0..(GridSize - 1))

\* C23: when the end event has reason board_full, every coordinate of the
\* grid is claimed, and the winner is the player with the higher score, -1
\* when the scores are equal.
C23_BoardFullWhenFull ==
    (Ended /\ EndEv.reason = "board_full") =>
        /\ \A rc \in Grid : HasKey(selected, rc)
        /\ WinnerByScore(EndEv)

\* C24: once the end event is broadcast both connections are closed and the
\* thread is over; with the connections closed the session sends nothing and
\* reads nothing.
C24_EndThenClosed ==
    [][/\ Ended' => (closed' /\ pc' = "done")
       /\ closed => (sent' = sent /\ inbox' = inbox /\ pc' = pc)]_vars

C24_Witness ==
    /\ Ended
    /\ closed
    /\ pc = "done"
    /\ EndEv.reason = "opponent_quit"
    /\ \E p \in Players : inbox[p] # <<>>

-----------------------------------------------------------------------------
\* A session running beside the MatchMaker: the session of Spec, created
\* from two connections accepted earlier, while the connections of Conns
\* join and are paired into further sessions.

\* the first messages of the connections that arrive while the session runs
NewcomerMsgs == {JoinMsg("survival"), None}

NextAll ==
    \/ Start
    \/ Turn
    \/ Wake
    \/ Timeout
    \/ Tick
    \/ \E p \in Players : ClientClose(p)
    \/ \E p \in Players : ConnReset(p)
    \/ \E c \in Conns, m \in NewcomerMsgs : HandleRecv(c, m)
    \/ \E c \in Conns : JoinAcquire(c)
    \/ \E c \in Conns : JoinAppend(c)
    \/ \E c \in Conns : JoinTest(c)
    \/ \E c \in Conns : JoinPopA(c)
    \/ \E c \in Conns : JoinPopB(c)
    \/ \E c \in Conns : JoinCreate(c)

SpecAll == InitMM /\ [][NextAll]_vars

\* C25: a step that changes the state of the session or of its connections
\* changes neither the waiting lists, nor the lock, nor the state of a
\* session created beside it.
C25_SessionFrame ==
    [][svars' # svars
          => (queues' = queues /\ sessions' = sessions /\ lock' = lock)]_vars

C25_Witness ==
    /\ closed
    /\ StartFailed
    /\ Len(sessions) = 1
    /\ sessions[1].running
    /\ queues["survival"] # <<>>

\* the thread reads the next line of player p in this step
Reads(p) ==
    /\ pc = "wait"
    /\ conn' = conn
    /\ inbox[p] # <<>>
    /\ inbox'[p] = Tail(inbox[p])

\* C26: when the thread reads from the current player a select without row
\* and column, a line that is no JSON object, a line that does not parse or a
\* message of unknown type, the thread neither dies nor ends the match, and
\* the Selection Map, scores, Hit-Mines and Turn Cursor are unchanged.
C26_MalformedKeepsRunning ==
    [][(/\ BothUp
        /\ Reads(turn)
        /\ Head(inbox[turn]) \in {SelectBare, NonDict, Garbage, Other})
       => (/\ pc' \notin {"crashed", "done"}
           /\ running'
           /\ ~closed'
           /\ UNCHANGED <<selected, scores, mines_hit, turn>>)]_vars

\* C27: a connection that is past the first read and not closed, or that is
\* in a waiting list, a session or the arrivals, read a join as its first
\* message; a connection whose first read gave anything else, or whose first
\* message did not arrive within the grace period, is closed and in no
\* waiting list and no session; and no connection is appended twice.
C27_JoinFirstOnly ==
    \A c \in Conns :
        /\ (\/ hpc[c] \notin {"recv", "closed"}
            \/ HasJoined(c)
            \/ InQueues(c) + InSessions(c) + InHand(c) > 0)
           => joinmsg[c].type = "join"
        /\ joinmsg[c].type \notin {"join", NoMsg.type}
           => (/\ hpc[c] = "closed"
               /\ ~HasJoined(c)
               /\ InQueues(c) + InSessions(c) + InHand(c) = 0)
        /\ c \in late
           => (/\ ~HasJoined(c)
               /\ InQueues(c) + InSessions(c) + InHand(c) = 0)
        /\ Cardinality({i \in 1..Len(arrivals) : arrivals[i] = c}) <= 1

-----------------------------------------------------------------------------
\* Clients that tell their in-turn requests from their out-of-turn ones: the
\* player the Turn Cursor points at never asks for EarlyCell, and the other
\* player asks for nothing else.

EarlyCell == <<0, 1>>
InTurnMsgs == {SelectMsg(rc) : rc \in {q \in SelCells \ {EarlyCell} : InGrid(q)}}

InTurnSend(p, m) == p = turn /\ ClientSend(p, m)
OutOfTurnSend(p) == p # turn /\ ClientSend(p, SelectMsg(EarlyCell))

NextTurns ==
    \/ Start
    \/ Turn
    \/ Wake
    \/ Timeout
    \/ Tick
    \/ \E p \in Players, m \in InTurnMsgs : InTurnSend(p, m)
    \/ \E p \in Players : OutOfTurnSend(p)

SpecTurns == Init /\ [][NextTurns]_vars

\* C28: a select written while the Turn Cursor pointed at the other player is
\* not applied: the step in which the thread reads it adds nothing to the
\* Selection Map, changes no score and does not flip the Turn Cursor.
C28_OutOfTurnNotApplied ==
    [][\A p \in Players :
          (Reads(p) /\ Head(inbox[p]) = SelectMsg(EarlyCell))
          => UNCHANGED <<selected, scores, turn>>]_vars

-----------------------------------------------------------------------------
\* The session's sets and flags.

\* the keys of the Selection Map
Keys(sel) == {sel[i].rc : i \in 1..Len(sel)}
MinesOk ==
    /\ Cardinality(mines) \in {2, 3, 4}
    /\ mines \subseteq Grid
    /\ mines_hit \subseteq mines
    /\ mines_hit = Keys(selected) \cap mines

\* C29: the Mine Set is 2, 3 or 4 coordinates of the grid and no step changes
\* it; Hit-Mines is a subset of it that no step shrinks, and is the set of
\* the keys of the Selection Map that are mines.
C29_MineSets ==
    [][/\ MinesOk
       /\ MinesOk'
       /\ mines' = mines
       /\ mines_hit \subseteq mines_hit']_vars

C29_Witness ==
    /\ Cardinality(mines) = 4
    /\ Cardinality(mines_hit) = 1
    /\ Len(selected) = 2
    /\ pc = "wait"

\* C30: when the thread has returned from run the running flag is false, no
\* step sets the flag from false to true, and the Turn Cursor is 0 or 1.
C30_RunningFalseOnStop ==
    [][/\ pc' = "done" => ~running'
       /\ ~running => ~running'
       /\ turn' \in Players]_vars

\* C31: in scoring mode each player's score is the number of safe cells
\* minus the number of mines among the cells the player owns in the Selection
\* Map, so the two scores add up to the size of the map minus twice the
\* number of mines hit.
C31_ScoreIsCount ==
    mode = "scoring" =>
        /\ scores = ScoresOf(selected, mines)
        /\ scores[0] + scores[1] = Len(selected) - 2 * Cardinality(mines_hit)

C31_Witness ==
    /\ mode = "scoring"
    /\ Len(selected) = 12
    /\ Cardinality(mines_hit) = 1
    /\ scores[0] + scores[1] = 10
    /\ scores[0] # scores[1]

EndReasons == {"mine", "timeout", "opponent_quit", "all_mines_hit", "board_full"}

\* C32: every end event sent has one of the five reasons; mine and timeout
\* only in survival mode, all_mines_hit never in survival mode; the winner is
\* -1, 0 or 1, and -1 only with reason all_mines_hit or board_full.
C32_EndReasons ==
    \A i \in 1..Len(sent) :
        LET ev == sent[i].ev IN
        ev.type = "end" =>
            /\ ev.reason \in EndReasons
            /\ ev.reason \in {"mine", "timeout"} => mode = "survival"
            /\ ev.reason = "all_mines_hit" => mode # "survival"
            /\ ev.winner \in {-1, 0, 1}
            /\ ev.winner = -1 => ev.reason \in {"all_mines_hit", "board_full"}

C32_Witness ==
    /\ mode = "survival"
    /\ Ended
    /\ EndEv.reason = "board_full"
    /\ EndEv.winner = -1

\* C35: in survival mode the k-th entry of the Selection Map in insertion
\* order, counted from 0, is owned by player k mod 2, and the numbers of
\* cells the two players own differ by at most one.
C35_SurvivalAlternates ==
    mode = "survival" =>
        /\ \A i \in 1..Len(selected) : selected[i].p = (i - 1) % 2
        /\ LET n(p) == Cardinality({i \in 1..Len(selected) : selected[i].p = p})
           IN n(0) - n(1) \in {0, 1}

C35_Witness ==
    /\ mode = "survival"
    /\ Len(selected) = 5
    /\ selected[5].p = 0
    /\ turn = 1

\* every entry of the Selection Map is a coordinate of the grid
AllInGrid == \A i \in 1..Len(selected) : InGrid(selected[i].rc)

\* C33: while every claimed coordinate is in the grid, a Selection Map of 64
\* entries belongs to a session that has ended, and no end event with reason
\* board_full is sent.
C33_NoBoardFullInGrid ==
    AllInGrid =>
        /\ Len(selected) >= BoardFull => (~running /\ pc = "done" /\ Ended)
        /\ \A i \in 1..Len(sent) :
              sent[i].ev.type = "end" => sent[i].ev.reason # "board_full"

C33_Witness ==
    /\ mode = "scoring"
    /\ AllInGrid
    /\ Len(selected) = BoardFull
    /\ Ended
    /\ EndEv.reason = "all_mines_hit"
    /\ selected[BoardFull].rc = <<0, 0>>

\* C34: a survival session that completed the start handshake and whose
\* thread has stopped has broadcast an end event and closed both connections.
C34_SurvivalStopsEnded ==
    (mode = "survival" /\ ~StartFailed /\ pc \in {"done", "crashed"})
        => (Ended /\ closed)

====
